---- MODULE Spec2Model ----
(***************************************************************************)
(* Model of src/src/XrdTls/XrdTlsContext.cc: the one-time TLS library      *)
(* initialisation (InitTLS / Init), the XrdTlsContext constructor with its *)
(* ctx_helper scope guard, the destructor, Clone, SetCiphers and the       *)
(* accessors.                                                              *)
(***************************************************************************)
EXTENDS Naturals, Sequences, FiniteSets, TLC

\* ------------------------------------------------------------------ bounds
NumThreads == 2
MaxCtx     == 2
MaxCalls   == 2

Threads == 1..NumThreads
ObjIds  == 1..MaxCtx

\* ------------------------------------------------------- values and inputs
\* A null const char *; the empty std::string is "".
NULL == "NULL"

\* Permission bits of a mode_t.
AllBits == {"ru", "wu", "xu", "rg", "wg", "xg", "ro", "wo", "xo"}

cert_mode == {"ru", "wu", "rg", "wg", "xg", "ro"}
pkey_mode == {"ru", "wu"}
cadr_mode == {"ru", "wu", "xu", "rg", "xg", "ro", "xo"}
cafl_mode == {"ru", "wu", "rg", "wg", "xg", "ro"}

M0600 == {"ru", "wu"}
M0640 == {"ru", "wu", "rg"}
M0644 == {"ru", "wu", "rg", "ro"}
M0755 == {"ru", "wu", "xu", "rg", "xg", "ro", "xo"}

\* The files the model's file system holds; any other path (the empty
\* string included) does not exist.
FsPaths == {"/ca", "/ca.pem", "/c.pem", "/b.pem", "/k.pem"}

FsInit == [p \in FsPaths |->
             CASE p = "/ca"     -> [isdir |-> TRUE,  mode |-> M0755]
               [] p = "/ca.pem" -> [isdir |-> FALSE, mode |-> M0644]
               [] p = "/c.pem"  -> [isdir |-> FALSE, mode |-> M0644]
               [] p = "/b.pem"  -> [isdir |-> FALSE, mode |-> M0600]
               [] OTHER         -> [isdir |-> FALSE, mode |-> M0600]]

\* Paths and modes the environment's chmod touches.
ChmodPaths == {"/k.pem"}
ChmodModes == {M0600, M0640}

\* The options word, as its three fields: opts & servr, opts & logVF and
\* (opts & vdept) >> vdepS.
OptsOf(s, l, d) == [servr |-> s, logVF |-> l, vdept |-> d]
NoOpts == OptsOf(FALSE, FALSE, 0)

\* The constructor's arguments.
ArgsOf(c, k, d, f, o) == [cert |-> c, key |-> k, caDir |-> d, caFile |-> f,
                          opts |-> o]

\* The argument lists the callers of the constructor use: an anonymous
\* server, a server with certificate, key and CA directory, a client that
\* leaves everything to the environment, a client with certificate, key and
\* CA file, and a server naming an empty CA directory path.
ArgSet == {ArgsOf(NULL, NULL, NULL, NULL, OptsOf(TRUE, FALSE, 0)),
           ArgsOf("/c.pem", "/k.pem", "/ca", NULL, OptsOf(TRUE, TRUE, 2)),
           ArgsOf(NULL, NULL, NULL, NULL, NoOpts),
           ArgsOf("/c.pem", "/k.pem", NULL, "/ca.pem", NoOpts),
           ArgsOf(NULL, NULL, "", NULL, OptsOf(TRUE, FALSE, 0))}

\* The environments the process runs in.
EnvNames == {"X509_CERT_DIR", "X509_CERT_FILE", "X509_USER_PROXY", "X509_USER_KEY"}
EnvOf(d, f, p, k) == [n \in EnvNames |->
                        CASE n = "X509_CERT_DIR"   -> d
                          [] n = "X509_CERT_FILE"  -> f
                          [] n = "X509_USER_PROXY" -> p
                          [] OTHER                 -> k]
EnvSet == {EnvOf(NULL, NULL, NULL, NULL),
           EnvOf("/ca", NULL, NULL, NULL),
           EnvOf(NULL, "/ca.pem", "/b.pem", NULL),
           EnvOf("/ca", "/ca.pem", "/c.pem", "/k.pem")}

\* The cipher strings SetCiphers is called with, besides the built-in default.
DefaultCiphers == "ECDHE-ECDSA-AES128-GCM-SHA256:..."
CipherArgs == {DefaultCiphers, "ALL:!LOW"}

\* Outcomes of the library calls of one constructor run.  The constructor
\* stops at the first call that fails, so the outcomes are enumerated by the
\* first failing call.
Faults == {"none", "meth", "alloc", "ca", "cipher", "cert", "key", "match"}
LibOf(f) == [meth |-> f # "meth", alloc |-> f # "alloc", ca |-> f # "ca",
             cipher |-> f # "cipher", cert |-> f # "cert", key |-> f # "key",
             match |-> f # "match"]
LibOutcomes == {LibOf(f) : f \in Faults}

\* Build variants: OPENSSL_THREADS defined or not, XRDTLS_SET_CALLBACKS
\* defined or not and, when it is, the value of CRYPTO_num_locks().
BuildOf(t, c, n) == [threads |-> t, callbacks |-> c, numLocks |-> n]
Builds == {BuildOf(FALSE, FALSE, 0), BuildOf(TRUE, FALSE, 0),
           BuildOf(TRUE, TRUE, 0), BuildOf(TRUE, TRUE, 2)}

\* --------------------------------------------------------------- variables
VARIABLES
  cfg,          \* the build variant of this process
  ctxMutex,     \* owner of ctxMutex: 0 or a thread
  initDone,     \* the initDone flag
  libInits,     \* times the library initialisation of InitTLS has run
  MutexVector,  \* 0, or the number of mutexes allocated for the library
  lockCB,       \* CRYPTO_set_locking_callback(sslTLS_lock) was called
  idCB,         \* CRYPTO_set_id_callback(sslTLS_id_callback) was called
  sslCiphers,   \* the process-wide cipher list
  env,          \* the process environment
  fs,           \* the file system: path -> kind and mode
  th,           \* per thread: position in its current call
  objs,         \* the XrdTlsContext objects ever constructed
  nObjs,        \* how many there are
  sink,         \* the records handed to XrdTlsGlobal::msgCB, in order
  call          \* the last direct call of VerPaths or VerCB, with its result

vars == <<cfg, ctxMutex, initDone, libInits, MutexVector, lockCB, idCB,
          sslCiphers, env, fs, th, objs, nObjs, sink, call>>

\* ------------------------------------------------------------ path checks
\* XrdOucUtils::ValPath(path, allow, isdir): 0 when the path exists, is of
\* the wanted kind and has no mode bit outside allow, else a reason.
ValPath(f, path, allow, isdir) ==
  IF path \notin DOMAIN f THEN "does not exist"
  ELSE IF f[path].isdir # isdir
         THEN (IF isdir THEN "is not a directory" ELSE "is not a file")
  ELSE IF ~(f[path].mode \subseteq allow) THEN "has excessive access rights"
  ELSE NULL

\* A validator that always checks the certificate against the wider mask.
VerPaths_WideCert(f, cert, pkey, cadr, cafl) ==
  IF cadr # NULL /\ ValPath(f, cadr, cadr_mode, TRUE) # NULL
    THEN [ok |-> FALSE, eMsg |-> <<"Unable to use CA cert directory ", cadr,
                                   "; ", ValPath(f, cadr, cadr_mode, TRUE)>>]
  ELSE IF cafl # NULL /\ ValPath(f, cafl, cafl_mode, FALSE) # NULL
    THEN [ok |-> FALSE, eMsg |-> <<"Unable to use CA cert file ", cafl,
                                   "; ", ValPath(f, cafl, cafl_mode, FALSE)>>]
  ELSE IF pkey # NULL /\ ValPath(f, pkey, pkey_mode, FALSE) # NULL
    THEN [ok |-> FALSE, eMsg |-> <<"Unable to use key file ", pkey,
                                   "; ", ValPath(f, pkey, pkey_mode, FALSE)>>]
  ELSE IF cert # NULL /\ ValPath(f, cert, cert_mode, FALSE) # NULL
    THEN [ok |-> FALSE,
          eMsg |-> <<(IF pkey # NULL THEN "Unable to use cert file "
                      ELSE "Unable to use cert+key file "),
                     cert, "; ", ValPath(f, cert, cert_mode, FALSE)>>]
  ELSE [ok |-> TRUE, eMsg |-> <<>>]

VerPaths(f, cert, pkey, cadr, cafl) ==
  IF cadr # NULL /\ ValPath(f, cadr, cadr_mode, TRUE) # NULL
    THEN [ok |-> FALSE, eMsg |-> <<"Unable to use CA cert directory ", cadr,
                                   "; ", ValPath(f, cadr, cadr_mode, TRUE)>>]
  ELSE IF cafl # NULL /\ ValPath(f, cafl, cafl_mode, FALSE) # NULL
    THEN [ok |-> FALSE, eMsg |-> <<"Unable to use CA cert file ", cafl,
                                   "; ", ValPath(f, cafl, cafl_mode, FALSE)>>]
  ELSE IF pkey # NULL /\ ValPath(f, pkey, pkey_mode, FALSE) # NULL
    THEN [ok |-> FALSE, eMsg |-> <<"Unable to use key file ", pkey,
                                   "; ", ValPath(f, pkey, pkey_mode, FALSE)>>]
  ELSE IF cert # NULL
    THEN LET cmode == IF pkey # NULL THEN cert_mode ELSE pkey_mode
             emsg  == ValPath(f, cert, cmode, FALSE)
         IN IF emsg # NULL
              THEN [ok |-> FALSE,
                    eMsg |-> <<(IF pkey # NULL THEN "Unable to use cert file "
                                ELSE "Unable to use cert+key file "),
                               cert, "; ", emsg>>]
              ELSE [ok |-> TRUE, eMsg |-> <<>>]
  ELSE [ok |-> TRUE, eMsg |-> <<>>]

GetTlsMethod(lib) ==
  IF ~lib.meth THEN "No negotiable TLS method available." ELSE NULL

\* ----------------------------------------------------------------- objects
\* CTX_Params as default-constructed: empty strings, no option set.
EmptyParm == [cert |-> "", pkey |-> "", cadir |-> "", cafile |-> "",
              opts |-> NoOpts]

NoArgs == ArgsOf(NULL, NULL, NULL, NULL, NoOpts)

\* The native SSL_CTX of an object: how often it was allocated and freed, and
\* what the constructor configured on it.
NoNative == [allocs |-> 0, frees |-> 0, options |-> FALSE, mode |-> FALSE,
             caLoc |-> FALSE, vmode |-> "unset", vdepth |-> 0, vcb |-> FALSE,
             ciphers |-> "", cert |-> NULL, key |-> NULL, checked |-> FALSE]

\* An object slot: st is "none" (not constructed), "building" (inside the
\* constructor), "live" (constructed) or "dead" (deleted).  ctx and Parm are
\* the fields of XrdTlsContextImpl; nat is the native context; the rest
\* records the history of the construction: the step that failed, the
\* steps executed, each with its outcome, the arguments the constructor body was entered with, the effective
\* arguments at parameter capture, whether the environment or the
\* file system changed since, the object Clone replayed, and whether the
\* object was handed to the caller.
NoObj == [st |-> "none", ctx |-> 0, Parm |-> EmptyParm, nat |-> NoNative,
          fail |-> "none", steps |-> <<>>, args |-> NoArgs, eff |-> NoArgs,
          stale |-> FALSE, from |-> 0, returned |-> FALSE]

\* new XrdTlsContextImpl(), then pImpl->ctx = 0.
NewObj(src) == [NoObj EXCEPT !.st = "building", !.from = src]

SSL_CTX_free(c) == [c EXCEPT !.nat.frees = @ + 1]

\* ~XrdTlsContextImpl()
Impl_dtor(c) == IF c.ctx # 0 THEN SSL_CTX_free(c) ELSE c

\* A construction in progress: the object, the records emitted so far and
\* whether ctx_tracker.Keep() was called.
msgCB(r, tag, msg, isErr) ==
  [r EXCEPT !.msgs = Append(@, [tag |-> tag, msg |-> msg, err |-> isErr])]

\* XrdTls::Emsg(tid, msg): hands the message to the sink.
XrdTls_Emsg(r, tag, msg) == msgCB(r, tag, msg, FALSE)

\* X509_verify_cert_error_string(err) for the error codes of the model.
X509_verify_cert_error_string(err) ==
  CASE err = 10 -> "certificate has expired"
    [] err = 18 -> "self signed certificate"
    [] OTHER    -> "error number"

\* A callback that logs the issuer ahead of the subject.
VerCB_IssuerFirst(aOK, x509P) ==
  IF aOK = 0
    THEN LET r0 == [msgs |-> <<>>, ret |-> aOK]
             r1 == msgCB(r0, "Cert", <<"Failing cert issuer=", x509P.cert.issuer>>, FALSE)
             r2 == msgCB(r1, "Cert", <<"Cert verification failed for DN=",
                                       x509P.cert.subject>>, FALSE)
         IN msgCB(r2, "Cert", <<"Error ", x509P.err, " at depth ", x509P.depth, " [",
                                X509_verify_cert_error_string(x509P.err), "]">>, FALSE)
    ELSE [msgs |-> <<>>, ret |-> aOK]

\* A callback that accepts whatever it is asked about.
VerCB_Accepting(aOK, x509P) ==
  IF aOK = 0
    THEN LET r0 == [msgs |-> <<>>, ret |-> 1]
             r1 == msgCB(r0, "Cert", <<"Cert verification failed for DN=",
                                       x509P.cert.subject>>, FALSE)
             r2 == msgCB(r1, "Cert", <<"Failing cert issuer=", x509P.cert.issuer>>, FALSE)
         IN msgCB(r2, "Cert", <<"Error ", x509P.err, " at depth ", x509P.depth, " [",
                                X509_verify_cert_error_string(x509P.err), "]">>, FALSE)
    ELSE [msgs |-> <<>>, ret |-> 1]

\* VerCB(aOK, x509P), lines 253-275: the records it hands to the sink and the
\* value it returns.
VerCB(aOK, x509P) ==
  IF aOK = 0
    THEN LET cert  == x509P.cert
             depth == x509P.depth
             err   == x509P.err
             r0 == [msgs |-> <<>>, ret |-> aOK]
             r1 == msgCB(r0, "Cert", <<"Cert verification failed for DN=",
                                       cert.subject>>, FALSE)
             r2 == msgCB(r1, "Cert", <<"Failing cert issuer=", cert.issuer>>, FALSE)
         IN msgCB(r2, "Cert", <<"Error ", err, " at depth ", depth, " [",
                                X509_verify_cert_error_string(err), "]">>, FALSE)
    ELSE [msgs |-> <<>>, ret |-> aOK]

Keep(r) == [r EXCEPT !.kept = TRUE]

\* A scope guard that never releases.
ctx_helper_dtor_Disarmed(r) == r

\* A scope guard that resets the pointer without freeing the context.
ctx_helper_dtor_NoFree(r) ==
  IF ~r.kept /\ r.c.ctx # 0 THEN [r EXCEPT !.c.ctx = 0] ELSE r

\* A scope guard that frees the context and leaves the pointer set.
ctx_helper_dtor_NoReset(r) ==
  IF ~r.kept /\ r.c.ctx # 0 THEN [r EXCEPT !.c = SSL_CTX_free(r.c)] ELSE r

\* ~ctx_helper(): if (ctxLoc && *ctxLoc) {SSL_CTX_free(*ctxLoc); *ctxLoc = 0;}
ctx_helper_dtor(r) ==
  IF ~r.kept /\ r.c.ctx # 0
    THEN [r EXCEPT !.c = [SSL_CTX_free(r.c) EXCEPT !.ctx = 0]]
    ELSE r

\* A return statement of the constructor: the scope guard's destructor runs.
\* step names the step that failed ("none" on the successful returns).
Return(r, step) == ctx_helper_dtor([r EXCEPT !.c.fail = step])

\* ------------------------------------------------------------- constructor
\* The constructor after the initialisation gate, as a chain of its steps;
\* each takes the construction in progress r = [c, msgs, kept] and yields the
\* construction as it is when the constructor returns.

\* The construction has executed a step, with the outcome ok.
Did(r, step, ok) == [r EXCEPT !.c.steps = Append(@, [step |-> step, ok |-> ok])]

\* The credential steps without SSL_CTX_check_private_key.
Credentials_NoCheck(r, cert, key0, lib) ==
  IF cert = NULL THEN Return(Keep(Did(r, "commit", TRUE)), "none")
  ELSE
    LET key == IF key0 = NULL THEN cert ELSE key0
        r1  == Did(r, "certificate", lib.cert)
        r2  == Did([r1 EXCEPT !.c.nat.cert = cert], "key", lib.key)
    IN
    IF ~lib.cert
      THEN Return(XrdTls_Emsg(r1, "LS_Context",
                  <<"Unable to create TLS context; certificate error.">>), "cert")
    ELSE IF ~lib.key
      THEN Return(XrdTls_Emsg(r2, "TLS_Context",
                  <<"Unable to create TLS context; private key error.">>), "key")
    ELSE Return(Keep(Did([r2 EXCEPT !.c.nat.key = key], "commit", TRUE)), "none")

\* Lines 428-467: no certificate, or load certificate and key and cross-check.
Credentials(r, cert, key0, lib) ==
  IF cert = NULL THEN Return(Keep(Did(r, "commit", TRUE)), "none")
  ELSE
    LET key == IF key0 = NULL THEN cert ELSE key0
        r1  == Did(r, "certificate", lib.cert)
        r2  == Did([r1 EXCEPT !.c.nat.cert = cert], "key", lib.key)
        r3  == Did([r2 EXCEPT !.c.nat.key = key], "crosscheck", lib.match)
    IN
    IF ~lib.cert
      THEN Return(XrdTls_Emsg(r1, "LS_Context",
                  <<"Unable to create TLS context; certificate error.">>), "cert")
    ELSE IF ~lib.key
      THEN Return(XrdTls_Emsg(r2, "TLS_Context",
                  <<"Unable to create TLS context; private key error.">>), "key")
    ELSE IF ~lib.match
      THEN Return(XrdTls_Emsg(r3, "TLS_Context",
                  <<"Unable to create TLS context; cert-key mismatch.">>), "match")
    ELSE Return(Keep(Did([r3 EXCEPT !.c.nat.checked = TRUE], "commit", TRUE)),
                "none")

\* A cipher step that installs the built-in list whatever SetCiphers set.
CipherPolicy_BuiltIn(r, a, lib, ciphers) ==
  LET r1 == Did(r, "cipher", lib.cipher) IN
  IF ~lib.cipher
    THEN Return(XrdTls_Emsg(r1, "TLS_Context",
                <<"Unable to set SSL cipher list.">>), "cipher")
    ELSE Credentials([r1 EXCEPT !.c.nat.ciphers = DefaultCiphers], a.cert, a.key, lib)

\* Lines 409-421: the cipher list.
CipherPolicy(r, a, lib, ciphers) ==
  LET r1 == Did(r, "cipher", lib.cipher) IN
  IF ~lib.cipher
    THEN Return(XrdTls_Emsg(r1, "TLS_Context",
                <<"Unable to set SSL cipher list.">>), "cipher")
    ELSE Credentials([r1 EXCEPT !.c.nat.ciphers = ciphers], a.cert, a.key, lib)

\* A verification policy that hands the depth subfield on as it is.
VerifyPolicy_RawDepth(r, a, lib, ciphers) ==
  IF a.caDir # NULL \/ a.caFile # NULL
    THEN LET r1 == Did(r, "verify", lib.ca) IN
         IF ~lib.ca
           THEN Return(XrdTls_Emsg(r1, "TLS_Context",
                       <<"Unable to set the CA cert file or directory.">>), "ca")
           ELSE CipherPolicy([r1 EXCEPT !.c.nat.caLoc = TRUE,
                                !.c.nat.vdepth = a.opts.vdept,
                                !.c.nat.vmode = "PEER",
                                !.c.nat.vcb = a.opts.logVF], a, lib, ciphers)
    ELSE CipherPolicy([Did(r, "verify", TRUE) EXCEPT !.c.nat.vmode = "NONE",
                                                     !.c.nat.vcb = FALSE],
                      a, lib, ciphers)

\* A verification policy that sets the cipher list before it loads the CA
\* locations.
VerifyPolicy_CipherFirst(r, a, lib, ciphers) ==
  LET r0 == Did(r, "cipher", lib.cipher) IN
  IF ~lib.cipher
    THEN Return(XrdTls_Emsg(r0, "TLS_Context",
                <<"Unable to set SSL cipher list.">>), "cipher")
  ELSE IF a.caDir # NULL \/ a.caFile # NULL
    THEN LET r1 == Did([r0 EXCEPT !.c.nat.ciphers = ciphers], "verify", lib.ca) IN
         IF ~lib.ca
           THEN Return(XrdTls_Emsg(r1, "TLS_Context",
                       <<"Unable to set the CA cert file or directory.">>), "ca")
           ELSE Credentials([r1 EXCEPT !.c.nat.caLoc = TRUE,
                                !.c.nat.vdepth = IF a.opts.vdept # 0
                                                   THEN a.opts.vdept ELSE 9,
                                !.c.nat.vmode = "PEER",
                                !.c.nat.vcb = a.opts.logVF], a.cert, a.key, lib)
    ELSE Credentials([Did([r0 EXCEPT !.c.nat.ciphers = ciphers], "verify", TRUE)
                        EXCEPT !.c.nat.vmode = "NONE", !.c.nat.vcb = FALSE],
                     a.cert, a.key, lib)

\* Lines 390-407: CA locations, verification depth, mode and callback.
VerifyPolicy(r, a, lib, ciphers) ==
  IF a.caDir # NULL \/ a.caFile # NULL
    THEN LET r1 == Did(r, "verify", lib.ca) IN
         IF ~lib.ca
           THEN Return(XrdTls_Emsg(r1, "TLS_Context",
                       <<"Unable to set the CA cert file or directory.">>), "ca")
           ELSE LET vDepth == a.opts.vdept
                    LogVF  == a.opts.logVF
                IN CipherPolicy([r1 EXCEPT !.c.nat.caLoc = TRUE,
                                   !.c.nat.vdepth = IF vDepth # 0 THEN vDepth ELSE 9,
                                   !.c.nat.vmode = "PEER",
                                   !.c.nat.vcb = LogVF], a, lib, ciphers)
    ELSE CipherPolicy([Did(r, "verify", TRUE) EXCEPT !.c.nat.vmode = "NONE",
                                                     !.c.nat.vcb = FALSE],
                      a, lib, ciphers)

\* Lines 363-388: method, SSL_CTX_new, options and mode.
Allocate(r, a, lib, ciphers) ==
  LET emsg == GetTlsMethod(lib)
      r1   == Did(r, "method", emsg = NULL)
      r2   == Did(r1, "allocation", lib.alloc)
  IN
  IF emsg # NULL
    THEN Return(msgCB(r1, "TLS_Context", <<emsg>>, FALSE), "meth")
  ELSE IF ~lib.alloc
    THEN Return(XrdTls_Emsg(r2, "TLS_Context",
                <<"Unable to allocate TLS context!">>), "alloc")
  ELSE VerifyPolicy([r2 EXCEPT !.c.ctx = 1, !.c.nat.allocs = @ + 1,
                               !.c.nat.options = TRUE, !.c.nat.mode = TRUE],
                    a, lib, ciphers)

\* Lines 355-361: copy the parameters to the Parm structure.
Capture(r, a) ==
  [Did(r, "capture", TRUE) EXCEPT
     !.c.Parm = [cert   |-> IF a.cert   # NULL THEN a.cert   ELSE @.cert,
                 pkey   |-> IF a.key    # NULL THEN a.key    ELSE @.pkey,
                 cadir  |-> IF a.caDir  # NULL THEN a.caDir  ELSE @.cadir,
                 cafile |-> IF a.caFile # NULL THEN a.caFile ELSE @.cafile,
                 opts   |-> a.opts],
     !.c.eff = a]

\* Parameter capture ahead of the path validation.
Validate_CaptureFirst(r, a, f, lib, ciphers) ==
  LET v  == VerPaths(f, a.cert, a.key, a.caDir, a.caFile)
      r1 == Did(Capture(r, a), "validation", v.ok)
  IN
  IF ~v.ok
    THEN Return(msgCB(r1, "TLS_Context", v.eMsg, FALSE), "paths")
    ELSE Allocate(r1, a, lib, ciphers)

\* Lines 347-361: path validation, then parameter capture.
Validate(r, a, f, lib, ciphers) ==
  LET v  == VerPaths(f, a.cert, a.key, a.caDir, a.caFile)
      r1 == Did(r, "validation", v.ok)
  IN
  IF ~v.ok
    THEN Return(msgCB(r1, "TLS_Context", v.eMsg, FALSE), "paths")
    ELSE Allocate(Capture(r1, a), a, lib, ciphers)

\* A defaulting that fills each missing CA value from the environment on its
\* own.
Defaulting_PerField(r, args, e, f, lib, ciphers) ==
  IF ~args.opts.servr
    THEN LET caDir  == IF args.caDir  = NULL THEN e["X509_CERT_DIR"]  ELSE args.caDir
             caFile == IF args.caFile = NULL THEN e["X509_CERT_FILE"] ELSE args.caFile
             cert   == IF args.cert = NULL THEN e["X509_USER_PROXY"] ELSE args.cert
             key    == IF args.key  = NULL THEN e["X509_USER_KEY"]   ELSE args.key
             r1     == Did(r, "defaulting", ~(caDir = NULL /\ caFile = NULL))
         IN IF caDir = NULL /\ caFile = NULL
              THEN Return(msgCB(r1, "Tls_Context",
                     <<"Unable to determine the location of trusted CA certificates to verify peer identify; this is required!">>,
                     FALSE), "config")
              ELSE Validate(r1, [cert |-> cert, key |-> key, caDir |-> caDir,
                                 caFile |-> caFile, opts |-> args.opts],
                            f, lib, ciphers)
    ELSE Validate(Did(r, "defaulting", TRUE), args, f, lib, ciphers)

\* Lines 327-345: client-side defaulting from the environment.
Defaulting(r, args, e, f, lib, ciphers) ==
  IF ~args.opts.servr
    THEN LET noCA   == args.caDir = NULL /\ args.caFile = NULL
             caDir  == IF noCA THEN e["X509_CERT_DIR"]  ELSE args.caDir
             caFile == IF noCA THEN e["X509_CERT_FILE"] ELSE args.caFile
             cert   == IF args.cert = NULL THEN e["X509_USER_PROXY"] ELSE args.cert
             key    == IF args.key  = NULL THEN e["X509_USER_KEY"]   ELSE args.key
             r1     == Did(r, "defaulting", ~(caDir = NULL /\ caFile = NULL))
         IN IF noCA /\ caDir = NULL /\ caFile = NULL
              THEN Return(msgCB(r1, "Tls_Context",
                     <<"Unable to determine the location of trusted CA certificates to verify peer identify; this is required!">>,
                     FALSE), "config")
              ELSE Validate(r1, [cert |-> cert, key |-> key, caDir |-> caDir,
                                 caFile |-> caFile, opts |-> args.opts],
                            f, lib, ciphers)
    ELSE Validate(Did(r, "defaulting", TRUE), args, f, lib, ciphers)

\* Lines 322-325: Init() returned a message.
InitFailed(r, emsg) ==
  Return(msgCB(Did(r, "gate", FALSE), "TLS_Context", <<emsg>>, FALSE), "init")

\* Lines 322-327: the gate is passed, the constructor goes on.
GatePassed(r) == Did(r, "gate", TRUE)

Construction(c) == [c |-> c, msgs |-> <<>>, kept |-> FALSE]

\* A replay that forgets the private key.
CloneArgs_NoKey(my) ==
  [cert   |-> IF my.cert   # "" THEN my.cert   ELSE NULL,
   key    |-> NULL,
   caDir  |-> IF my.cadir  # "" THEN my.cadir  ELSE NULL,
   caFile |-> IF my.cafile # "" THEN my.cafile ELSE NULL,
   opts   |-> my.opts]

\* Clone, lines 481-485: the arguments replayed from the Parm structure.
CloneArgs(my) ==
  [cert   |-> IF my.cert   # "" THEN my.cert   ELSE NULL,
   key    |-> IF my.pkey   # "" THEN my.pkey   ELSE NULL,
   caDir  |-> IF my.cadir  # "" THEN my.cadir  ELSE NULL,
   caFile |-> IF my.cafile # "" THEN my.cafile ELSE NULL,
   opts   |-> my.opts]

\* The accessors.
Context(c)    == c.ctx
GetParams(c)  == c.Parm

\* An x509Verify that looks at the CA directory only.
x509Verify_DirOnly(c) == c.Parm.cadir # ""

x509Verify(c) == c.Parm.cadir # "" \/ c.Parm.cafile # ""

\* delete of an object: ~XrdTlsContext deletes pImpl.  Of a deleted object
\* only the accounting of its native context and the way its construction
\* ended remain.
Delete(c) ==
  [NoObj EXCEPT !.st = "dead", !.nat.allocs = Impl_dtor(c).nat.allocs,
                !.nat.frees = Impl_dtor(c).nat.frees, !.fail = c.fail,
                !.from = c.from, !.returned = c.returned]

\* A Clone that returns xtc unchecked.
CloneFinish_Unchecked(c) == [c EXCEPT !.st = "live", !.returned = TRUE]

\* Clone, lines 491-498: return xtc when it holds a context, else delete it.
CloneFinish(c) ==
  IF Context(c) # 0 THEN [c EXCEPT !.st = "live", !.returned = TRUE]
                    ELSE Delete(c)

\* ------------------------------------------------------------ state machine
\* No direct call of VerPaths or VerCB was made yet.
NoCall == [fn |-> "none", n |-> 0, args |-> <<>>, res |-> <<>>]

Idle == [pc |-> "idle", kind |-> "none", obj |-> 0, src |-> 0,
         done |-> FALSE, emsg |-> NULL]

Init ==
  /\ cfg \in {BuildOf(FALSE, FALSE, 0), BuildOf(TRUE, TRUE, 2)}
  /\ ctxMutex = 0
  /\ initDone = FALSE
  /\ libInits = 0
  /\ MutexVector = 0
  /\ lockCB = FALSE
  /\ idCB = FALSE
  /\ sslCiphers = DefaultCiphers
  /\ env \in EnvSet
  /\ fs = FsInit
  /\ th = [t \in Threads |-> Idle]
  /\ objs = [o \in ObjIds |-> NoObj]
  /\ nObjs = 0
  /\ sink = <<>>
  /\ call = NoCall

initState == <<initDone, libInits, MutexVector, lockCB, idCB>>
world     == <<sslCiphers, env, fs>>

\* A thread enters the constructor: pImpl = new XrdTlsContextImpl(), the
\* scope guard is set up and pImpl->ctx = 0 (lines 284-310).
CallBuild(t) ==
  /\ th[t].pc = "idle"
  /\ nObjs < MaxCtx
  /\ nObjs' = nObjs + 1
  /\ objs' = [objs EXCEPT ![nObjs + 1] = NewObj(0)]
  /\ th' = [th EXCEPT ![t] = [Idle EXCEPT !.pc = "gate_beg", !.kind = "build",
                                          !.obj = nObjs + 1]]
  /\ UNCHANGED <<call, cfg, ctxMutex, initState, world, sink>>

\* A thread calls Clone() on a constructed object: it enters the constructor
\* with the arguments taken from that object's Parm (lines 479-489).
CallClone(t, o) ==
  /\ th[t].pc = "idle"
  /\ objs[o].st = "live"
  /\ nObjs < MaxCtx
  /\ nObjs' = nObjs + 1
  /\ objs' = [objs EXCEPT ![nObjs + 1] = NewObj(o)]
  /\ th' = [th EXCEPT ![t] = [Idle EXCEPT !.pc = "gate_beg", !.kind = "clone",
                                          !.obj = nObjs + 1, !.src = o]]
  /\ UNCHANGED <<call, cfg, ctxMutex, initState, world, sink>>

\* A thread calls the static Init().
CallInit(t) ==
  /\ th[t].pc = "idle"
  /\ th' = [th EXCEPT ![t] = [Idle EXCEPT !.pc = "init", !.kind = "init"]]
  /\ UNCHANGED <<call, cfg, ctxMutex, initState, world, objs, nObjs, sink>>

\* XrdSysMutex::Lock() and UnLock() on ctxMutex.
Lock(t)   == ctxMutex = 0 /\ ctxMutex' = t
UnLock(t) == ctxMutex' = 0

\* AtomicBeg(ctxMutex) and AtomicEnd(ctxMutex): the flag is read under the
\* mutex.
AtomicBeg(t) == Lock(t)
AtomicEnd(t) == UnLock(t)

\* XrdSysMutexHelper: locks where it is declared, unlocks at the end of the
\* scope.
MutexHelper_ctor(t) == Lock(t)
MutexHelper_dtor(t) == UnLock(t)

\* Line 315: AtomicBeg(ctxMutex).
Gate_Beg(t) ==
  /\ th[t].pc = "gate_beg"
  /\ AtomicBeg(t)
  /\ th' = [th EXCEPT ![t].pc = "gate_load"]
  /\ UNCHANGED <<call, cfg, initState, world, objs, nObjs, sink>>

\* Line 317: bool done = initDone.load();
Gate_Load(t) ==
  /\ th[t].pc = "gate_load"
  /\ th' = [th EXCEPT ![t].pc = "gate_end", ![t].done = initDone]
  /\ UNCHANGED <<call, cfg, ctxMutex, initState, world, objs, nObjs, sink>>

\* Lines 321-322: AtomicEnd(ctxMutex), then if (!done && (emsg = Init())).
Gate_End(t) ==
  /\ th[t].pc = "gate_end"
  /\ AtomicEnd(t)
  /\ th' = [th EXCEPT ![t].pc = IF th[t].done THEN "body" ELSE "init"]
  /\ UNCHANGED <<call, cfg, initState, world, objs, nObjs, sink>>

\* An Init() that calls InitTLS whatever the library was built with.
Init_Enter_NoGuard(t) ==
  /\ th[t].pc = "init"
  /\ th' = [th EXCEPT ![t].pc = "itls_lock"]
  /\ UNCHANGED <<call, cfg, ctxMutex, initState, world, objs, nObjs, sink>>

\* Init(): without OPENSSL_THREADS it returns the message, else calls InitTLS.
Init_Enter(t) ==
  /\ th[t].pc = "init"
  /\ th' = IF cfg.threads
             THEN [th EXCEPT ![t].pc = "itls_lock"]
             ELSE [th EXCEPT ![t].pc = "init_ret",
                             ![t].emsg = "Installed OpenSSL lacks the required thread support!"]
  /\ UNCHANGED <<call, cfg, ctxMutex, initState, world, objs, nObjs, sink>>

\* InitTLS: XrdSysMutexHelper ctxHelper(ctxMutex);
InitTLS_Lock(t) ==
  /\ th[t].pc = "itls_lock"
  /\ MutexHelper_ctor(t)
  /\ th' = [th EXCEPT ![t].pc = "itls_check"]
  /\ UNCHANGED <<call, cfg, initState, world, objs, nObjs, sink>>

\* InitTLS without the test of initDone: every caller initialises.
InitTLS_Check_NoTest(t) ==
  /\ th[t].pc = "itls_check"
  /\ initDone' = TRUE
  /\ th' = [th EXCEPT ![t].pc = "itls_lib"]
  /\ UNCHANGED <<call, cfg, ctxMutex, libInits, MutexVector, lockCB, idCB, world,
                 objs, nObjs, sink>>

\* InitTLS holding the mutex for the test and the setting of initDone only.
InitTLS_Check_ShortLock(t) ==
  /\ th[t].pc = "itls_check"
  /\ MutexHelper_dtor(t)
  /\ IF initDone
       THEN /\ th' = [th EXCEPT ![t].pc = "init_ret"]
            /\ UNCHANGED initDone
       ELSE /\ initDone' = TRUE
            /\ th' = [th EXCEPT ![t].pc = "itls_lib"]
  /\ UNCHANGED <<call, cfg, libInits, MutexVector, lockCB, idCB, world, objs, nObjs, sink>>

\* InitTLS returning from the test of initDone with the mutex held.
InitTLS_Check_NoUnlock(t) ==
  /\ th[t].pc = "itls_check"
  /\ IF initDone
       THEN /\ th' = [th EXCEPT ![t].pc = "init_ret"]
            /\ UNCHANGED initDone
       ELSE /\ initDone' = TRUE
            /\ th' = [th EXCEPT ![t].pc = "itls_lib"]
  /\ UNCHANGED <<call, cfg, ctxMutex, libInits, MutexVector, lockCB, idCB, world,
                 objs, nObjs, sink>>

\* InitTLS: if (initDone) return; initDone = true;
InitTLS_Check(t) ==
  /\ th[t].pc = "itls_check"
  /\ IF initDone
       THEN /\ MutexHelper_dtor(t)
            /\ th' = [th EXCEPT ![t].pc = "init_ret"]
            /\ UNCHANGED initDone
       ELSE /\ initDone' = TRUE
            /\ th' = [th EXCEPT ![t].pc = "itls_lib"]
            /\ UNCHANGED ctxMutex
  /\ UNCHANGED <<call, cfg, libInits, MutexVector, lockCB, idCB, world, objs, nObjs, sink>>

\* InitTLS: SSL_library_init() ... ERR_load_crypto_strings().
InitTLS_Lib(t) ==
  /\ th[t].pc = "itls_lib"
  /\ libInits' = libInits + 1
  /\ th' = [th EXCEPT ![t].pc = "itls_cb"]
  /\ UNCHANGED <<call, cfg, ctxMutex, initDone, MutexVector, lockCB, idCB, world,
                 objs, nObjs, sink>>

\* InitTLS: the callbacks under XRDTLS_SET_CALLBACKS, then the end of the
\* function, where ctxHelper releases the mutex.
InitTLS_Callbacks(t) ==
  /\ th[t].pc = "itls_cb"
  /\ IF cfg.callbacks
       THEN /\ MutexVector' = IF cfg.numLocks > 0 THEN cfg.numLocks ELSE MutexVector
            /\ lockCB' = IF cfg.numLocks > 0 THEN TRUE ELSE lockCB
            /\ idCB' = TRUE
       ELSE UNCHANGED <<MutexVector, lockCB, idCB>>
  /\ MutexHelper_dtor(t)
  /\ th' = [th EXCEPT ![t].pc = "init_ret"]
  /\ UNCHANGED <<call, cfg, initDone, libInits, world, objs, nObjs, sink>>

Stamp(msgs, o) ==
  [i \in 1..Len(msgs) |-> [tag |-> msgs[i].tag, msg |-> msgs[i].msg,
                           err |-> msgs[i].err, by |-> o]]

\* The constructor returns construction r to thread t: to the caller of the
\* constructor, or to Clone, which ends as well.
Finish(t, r) ==
  /\ objs' = [objs EXCEPT ![th[t].obj] =
                IF th[t].kind = "clone" THEN CloneFinish(r.c)
                ELSE [r.c EXCEPT !.st = "live", !.returned = TRUE]]
  /\ sink' = sink \o Stamp(r.msgs, th[t].obj)
  /\ th' = [th EXCEPT ![t] = Idle]

\* Init() returns: to its caller, or into the constructor at line 322.
Init_Return(t) ==
  /\ th[t].pc = "init_ret"
  /\ IF th[t].kind = "init"
       THEN /\ th' = [th EXCEPT ![t] = [Idle EXCEPT !.emsg = th[t].emsg]]
            /\ UNCHANGED <<objs, sink>>
       ELSE IF th[t].emsg # NULL
              THEN Finish(t, InitFailed(Construction(objs[th[t].obj]), th[t].emsg))
              ELSE /\ th' = [th EXCEPT ![t].pc = "body"]
                   /\ UNCHANGED <<objs, sink>>
  /\ UNCHANGED <<call, cfg, ctxMutex, initState, world, nObjs>>

\* The constructor from line 327 to its return.
Ctor_Body(t, Args, Libs) ==
  /\ th[t].pc = "body"
  /\ \E lib \in Libs :
       \E args \in (IF th[t].kind = "clone"
                      THEN {CloneArgs(objs[th[t].src].Parm)} ELSE Args) :
         Finish(t, Defaulting(GatePassed(Construction([objs[th[t].obj]
                                                          EXCEPT !.args = args])),
                              args, env, fs, lib, sslCiphers))
  /\ UNCHANGED <<call, cfg, ctxMutex, initState, world, nObjs>>

\* The owner deletes a constructed object.
Destroy(o) ==
  /\ objs[o].st = "live"
  /\ \A t \in Threads : th[t].src # o
  /\ objs' = [objs EXCEPT ![o] = Delete(objs[o])]
  /\ UNCHANGED <<call, cfg, ctxMutex, initState, world, th, nObjs, sink>>

\* Context(), GetParams() and x509Verify() on a constructed object.
Accessors(o) ==
  /\ objs[o].st = "live"
  /\ Context(objs[o]) \in {0, 1}
  /\ GetParams(objs[o]) = objs[o].Parm
  /\ x509Verify(objs[o]) \in BOOLEAN
  /\ UNCHANGED vars

\* A thread calls the static SetCiphers(ciphers).
SetCiphers(t, ciphers) ==
  /\ th[t].pc = "idle"
  /\ ciphers # sslCiphers
  /\ sslCiphers' = ciphers
  /\ UNCHANGED <<call, cfg, ctxMutex, initState, env, fs, th, objs, nObjs, sink>>

\* The environment (a thread calls setenv) and the file system (anyone calls
\* chmod) change; the objects constructed before are marked.
Mark == [o \in ObjIds |-> IF objs[o].st = "live"
                            THEN [objs[o] EXCEPT !.stale = TRUE] ELSE objs[o]]

Setenv(t, e) ==
  /\ th[t].pc = "idle"
  /\ e # env
  /\ env' = e
  /\ objs' = Mark
  /\ UNCHANGED <<call, cfg, ctxMutex, initState, sslCiphers, fs, th, nObjs, sink>>

Chmod(p, m) ==
  /\ m # fs[p].mode
  /\ fs' = [fs EXCEPT ![p].mode = m]
  /\ objs' = Mark
  /\ UNCHANGED <<call, cfg, ctxMutex, initState, sslCiphers, env, th, nObjs, sink>>

\* The single thread of the sequential specification.
Main == CHOOSE t \in Threads : \A u \in Threads : t <= u

Next ==
  \/ CallBuild(Main)
  \/ \E o \in ObjIds : CallClone(Main, o)
  \/ Gate_Beg(Main)
  \/ Gate_Load(Main)
  \/ Gate_End(Main)
  \/ Init_Enter(Main)
  \/ InitTLS_Lock(Main)
  \/ InitTLS_Check(Main)
  \/ InitTLS_Lib(Main)
  \/ InitTLS_Callbacks(Main)
  \/ Init_Return(Main)
  \/ Ctor_Body(Main, ArgSet, LibOutcomes)
  \/ \E o \in ObjIds : Destroy(o)
  \/ \E o \in ObjIds : Accessors(o)
  \/ \E c \in CipherArgs : SetCiphers(Main, c)
  \/ \E e \in EnvSet : Setenv(Main, e)
  \/ \E p \in ChmodPaths : \E m \in ChmodModes : Chmod(p, m)

Spec == Init /\ [][Next]_vars

\* ---------------------------------------------------------- path validator
\* VerPaths called on its own, on every file system over the four role
\* paths: each path is missing, or a file or a directory with one of the
\* modes 0600, 0644, 0666 and 0755.
M0666 == {"ru", "wu", "rg", "wg", "ro", "wo"}
VPModes == {M0600, M0644, M0666, M0755}
VPPaths == {"/ca", "/ca.pem", "/k.pem", "/c.pem"}
VPFiles == {[isdir |-> d, mode |-> m] : d \in BOOLEAN, m \in VPModes}
VPFs    == UNION {[D -> VPFiles] : D \in SUBSET VPPaths}

InitVP ==
  /\ cfg = BuildOf(TRUE, FALSE, 0)
  /\ ctxMutex = 0
  /\ initDone = FALSE
  /\ libInits = 0
  /\ MutexVector = 0
  /\ lockCB = FALSE
  /\ idCB = FALSE
  /\ sslCiphers = DefaultCiphers
  /\ env = EnvOf(NULL, NULL, NULL, NULL)
  /\ fs \in VPFs
  /\ th = [t \in Threads |-> Idle]
  /\ objs = [o \in ObjIds |-> NoObj]
  /\ nObjs = 0
  /\ sink = <<>>
  /\ call = NoCall

\* VerPaths(cert, pkey, cadr, cafl, eMsg) is called and returns.
VerPaths_Call(cert, pkey, cadr, cafl) ==
  /\ call.n < MaxCalls
  /\ call' = [fn |-> "VerPaths", n |-> call.n + 1,
              args |-> [cert |-> cert, pkey |-> pkey, cadr |-> cadr, cafl |-> cafl],
              res |-> VerPaths(fs, cert, pkey, cadr, cafl)]
  /\ UNCHANGED <<cfg, ctxMutex, initState, world, th, objs, nObjs, sink>>

NextVP ==
  \E cert \in {NULL, "/c.pem"} : \E pkey \in {NULL, "/k.pem"} :
    \E cadr \in {NULL, "/ca"} : \E cafl \in {NULL, "/ca.pem"} :
      VerPaths_Call(cert, pkey, cadr, cafl)

SpecVP == InitVP /\ [][NextVP]_vars

\* ---------------------------------------------------- verification callback
\* The library calls VerCB during certificate verification, with its verdict
\* and the store context: the certificate at hand, as subject and issuer
\* names, the error code and the depth in the chain.
Verdicts == {0, 1, 2}
X509Certs == {[subject |-> "/CN=host", issuer |-> "/CN=ca"],
              [subject |-> "/CN=ca",   issuer |-> "/CN=ca"]}
X509Errs == {10, 18}
X509Depths == {0, 1}
StoreCtxs == {[cert |-> c, err |-> e, depth |-> d] :
                c \in X509Certs, e \in X509Errs, d \in X509Depths}

InitCB ==
  /\ cfg = BuildOf(TRUE, FALSE, 0)
  /\ ctxMutex = 0
  /\ initDone = FALSE
  /\ libInits = 0
  /\ MutexVector = 0
  /\ lockCB = FALSE
  /\ idCB = FALSE
  /\ sslCiphers = DefaultCiphers
  /\ env = EnvOf(NULL, NULL, NULL, NULL)
  /\ fs = FsInit
  /\ th = [t \in Threads |-> Idle]
  /\ objs = [o \in ObjIds |-> NoObj]
  /\ nObjs = 0
  /\ sink = <<>>
  /\ call = NoCall

\* VerCB(aOK, x509P) is called and returns.
VerCB_Call(aOK, x509P) ==
  /\ call.n < MaxCalls
  /\ call' = [fn |-> "VerCB", n |-> call.n + 1,
              args |-> [aOK |-> aOK, x509P |-> x509P],
              res |-> VerCB(aOK, x509P).ret]
  /\ sink' = sink \o Stamp(VerCB(aOK, x509P).msgs, 0)
  /\ UNCHANGED <<cfg, ctxMutex, initState, world, th, objs, nObjs>>

NextCB == \E aOK \in Verdicts : \E x509P \in StoreCtxs : VerCB_Call(aOK, x509P)

SpecCB == InitCB /\ [][NextCB]_vars

\* ------------------------------------------------------ one constructor call
\* A process that constructs one context, with every combination of
\* arguments, environment and library outcome: the certificate is absent,
\* a certificate with a separate key, a certificate holding its key, or a
\* missing file; the CA directory is absent, a directory or the empty path.
InOpts == {OptsOf(s, l, d) : s \in BOOLEAN, l \in BOOLEAN, d \in {0, 2}}
InArgs == {ArgsOf(c, k, d, f, o) :
             c \in {NULL, "/c.pem", "/b.pem", "/x.pem"}, k \in {NULL, "/k.pem"},
             d \in {NULL, "/ca", ""}, f \in {NULL, "/ca.pem"}, o \in InOpts}
InEnvs == {EnvOf(d, f, p, k) :
             d \in {NULL, "/ca"}, f \in {NULL, "/ca.pem"},
             p \in {NULL, "/b.pem"}, k \in {NULL, "/k.pem"}}

InitIn ==
  /\ cfg \in {BuildOf(FALSE, FALSE, 0), BuildOf(TRUE, TRUE, 2)}
  /\ ctxMutex = 0
  /\ initDone = FALSE
  /\ libInits = 0
  /\ MutexVector = 0
  /\ lockCB = FALSE
  /\ idCB = FALSE
  /\ sslCiphers = DefaultCiphers
  /\ env \in InEnvs
  /\ fs = FsInit
  /\ th = [t \in Threads |-> Idle]
  /\ objs = [o \in ObjIds |-> NoObj]
  /\ nObjs = 0
  /\ sink = <<>>
  /\ call = NoCall

\* The process's one call of the constructor.
CallFirstBuild(t) == nObjs = 0 /\ CallBuild(t)

NextIn ==
  \/ CallFirstBuild(Main)
  \/ Gate_Beg(Main)
  \/ Gate_Load(Main)
  \/ Gate_End(Main)
  \/ Init_Enter(Main)
  \/ InitTLS_Lock(Main)
  \/ InitTLS_Check(Main)
  \/ InitTLS_Lib(Main)
  \/ InitTLS_Callbacks(Main)
  \/ Init_Return(Main)
  \/ Ctor_Body(Main, InArgs, LibOutcomes)

SpecIn == InitIn /\ [][NextIn]_vars

\* ------------------------------------------------- concurrent initialisation
\* Threads construct contexts and call Init() concurrently, in a fixed
\* environment.
GateArgs == {ArgsOf(NULL, NULL, NULL, NULL, OptsOf(TRUE, FALSE, 0)),
             ArgsOf(NULL, NULL, NULL, NULL, NoOpts)}
GateLibs == {LibOf("none"), LibOf("alloc")}

InitMT ==
  /\ cfg \in Builds
  /\ ctxMutex = 0
  /\ initDone = FALSE
  /\ libInits = 0
  /\ MutexVector = 0
  /\ lockCB = FALSE
  /\ idCB = FALSE
  /\ sslCiphers = DefaultCiphers
  /\ env = EnvOf("/ca", NULL, NULL, NULL)
  /\ fs = FsInit
  /\ th = [t \in Threads |-> Idle]
  /\ objs = [o \in ObjIds |-> NoObj]
  /\ nObjs = 0
  /\ sink = <<>>
  /\ call = NoCall

NextMT ==
  \/ \E t \in Threads : CallBuild(t)
  \/ \E t \in Threads : CallInit(t)
  \/ \E t \in Threads : Gate_Beg(t)
  \/ \E t \in Threads : Gate_Load(t)
  \/ \E t \in Threads : Gate_End(t)
  \/ \E t \in Threads : Init_Enter(t)
  \/ \E t \in Threads : InitTLS_Lock(t)
  \/ \E t \in Threads : InitTLS_Check(t)
  \/ \E t \in Threads : InitTLS_Lib(t)
  \/ \E t \in Threads : InitTLS_Callbacks(t)
  \/ \E t \in Threads : Init_Return(t)
  \/ \E t \in Threads : Ctor_Body(t, GateArgs, GateLibs)

SpecMT == InitMT /\ [][NextMT]_vars

\* ------------------------------------------------------------ fair scheduling
\* Threads construct anonymous server contexts and call Init() concurrently,
\* in a build without thread support or in one that installs the callbacks.
FairArgs == {ArgsOf(NULL, NULL, NULL, NULL, OptsOf(TRUE, FALSE, 0))}
FairLibs == {LibOf("none")}

InitFair ==
  /\ cfg \in {BuildOf(FALSE, FALSE, 0), BuildOf(TRUE, TRUE, 2)}
  /\ ctxMutex = 0
  /\ initDone = FALSE
  /\ libInits = 0
  /\ MutexVector = 0
  /\ lockCB = FALSE
  /\ idCB = FALSE
  /\ sslCiphers = DefaultCiphers
  /\ env = EnvOf(NULL, NULL, NULL, NULL)
  /\ fs = FsInit
  /\ th = [t \in Threads |-> Idle]
  /\ objs = [o \in ObjIds |-> NoObj]
  /\ nObjs = 0
  /\ sink = <<>>
  /\ call = NoCall

\* The steps of thread t inside a call of the constructor or of Init().
Progress(t) ==
  \/ Gate_Beg(t)
  \/ Gate_Load(t)
  \/ Gate_End(t)
  \/ Init_Enter(t)
  \/ InitTLS_Lock(t)
  \/ InitTLS_Check(t)
  \/ InitTLS_Lib(t)
  \/ InitTLS_Callbacks(t)
  \/ Init_Return(t)
  \/ Ctor_Body(t, FairArgs, FairLibs)

NextFair ==
  \/ \E t \in Threads : CallBuild(t)
  \/ \E t \in Threads : CallInit(t)
  \/ \E t \in Threads : Progress(t)

\* Fair scheduling: a thread that can take a step of its call again and
\* again, be it only each time ctxMutex is free, takes one.  When and
\* whether a thread makes a call is left open.
SpecFair == InitFair /\ [][NextFair]_vars /\ \A t \in Threads : SF_vars(Progress(t))

\* ------------------------------------------------------------------ claims
\* The threads inside the library initialisation of InitTLS.
InBody(t) == th[t].pc \in {"itls_lib", "itls_cb"}

\* All first-call work of InitTLS is finished.
InitComplete ==
  /\ libInits = 1
  /\ \A t \in Threads : ~InBody(t)
  /\ cfg.callbacks => /\ idCB
                      /\ cfg.numLocks > 0 => lockCB /\ MutexVector = cfg.numLocks

\* C1: however the calls of the constructor and of Init interleave, the
\* library initialisation of InitTLS runs at most once, and exactly once as
\* soon as a caller has passed the initDone test and gone through it.
C1_InitOnce ==
  /\ libInits <= 1
  /\ Cardinality({t \in Threads : InBody(t)}) <= 1
  /\ initDone => \/ libInits = 1
                 \/ \E t \in Threads : th[t].pc = "itls_lib"
  /\ libInits = 1 => initDone

\* Two callers are inside InitTLS at once: one has initialised the library,
\* the other waits for the mutex.
C1_Witness ==
  \E t1, t2 \in Threads :
    /\ th[t1].pc = "itls_cb" /\ libInits = 1
    /\ th[t2].pc = "itls_lock"

\* C2: a thread that is past the initialisation gate of the constructor finds
\* the library initialisation complete, the callbacks included.
C2_GateAfterInit ==
  \A t \in Threads :
    (th[t].pc = "body" \/ (th[t].pc = "init_ret" /\ th[t].emsg = NULL))
      => InitComplete

\* A thread passed the gate because it read initDone as set, in a build that
\* installs the callbacks, while another thread is still in the constructor.
C2_Witness ==
  \E t1, t2 \in Threads :
    /\ t1 # t2
    /\ th[t1].pc = "body" /\ th[t1].done
    /\ th[t2].pc = "body" /\ ~th[t2].done
    /\ cfg.callbacks /\ cfg.numLocks > 0

\* The steps a construction can fail at: before the parameters are captured,
\* and in a library call after it.
EarlyFails == {"init", "config", "paths"}
LibFails   == {"meth", "alloc", "ca", "cipher", "cert", "key", "match"}

\* The objects whose constructor has returned and that are as the
\* constructor left them: the constructed ones, and the failed ones Clone
\* deleted at once.
Built == {o \in ObjIds : \/ objs[o].st = "live"
                         \/ objs[o].st = "dead" /\ ~objs[o].returned}
Live  == {o \in ObjIds : objs[o].st = "live"}

\* The records the construction of object o handed to the sink.
Diags(o) == {i \in 1..Len(sink) : sink[i].by = o}

PathsEmpty(P) == P.cert = "" /\ P.pkey = "" /\ P.cadir = "" /\ P.cafile = ""

\* The Parm that holds the arguments a: a path where one is given, the empty
\* string where none is.
ParmOf(a) == [cert   |-> IF a.cert   = NULL THEN "" ELSE a.cert,
              pkey   |-> IF a.key    = NULL THEN "" ELSE a.key,
              cadir  |-> IF a.caDir  = NULL THEN "" ELSE a.caDir,
              cafile |-> IF a.caFile = NULL THEN "" ELSE a.caFile,
              opts   |-> a.opts]

\* C3: when the constructor has returned, either Context() is non-null and
\* no step failed, or Context() is null and the construction handed at least
\* one record to the sink; never both.
C3_ContextOrDiagnostic ==
  \A o \in Built :
    LET A == Context(objs[o]) # 0 /\ objs[o].fail = "none"
        B == Context(objs[o]) = 0 /\ Cardinality(Diags(o)) >= 1
    IN (A \/ B) /\ ~(A /\ B)

\* A construction that failed at the cross-check, after the native context
\* was allocated, and one that succeeded.
C3_Witness ==
  \E o1, o2 \in Live :
    /\ objs[o1].fail = "match" /\ Context(objs[o1]) = 0 /\ Diags(o1) # {}
    /\ objs[o2].fail = "none" /\ Context(objs[o2]) # 0

\* C4 as claimed: every object with a non-null context has had certificate
\* and key loaded and the cross-check done.
C4_Original ==
  \A o \in Live :
    Context(objs[o]) # 0 =>
      /\ objs[o].nat.cert # NULL
      /\ objs[o].nat.key # NULL
      /\ objs[o].nat.checked

\* C4, amended: an object with a non-null context whose parameters name a
\* certificate has had that certificate loaded, the key loaded (from the key
\* file, or from the certificate file when no key is named) and the
\* cross-check done; one whose parameters name no certificate has had none
\* of the three.
C4_CrossChecked ==
  \A o \in Live :
    Context(objs[o]) # 0 =>
      IF objs[o].Parm.cert # ""
        THEN /\ objs[o].nat.cert = objs[o].Parm.cert
             /\ objs[o].nat.key = (IF objs[o].Parm.pkey # ""
                                     THEN objs[o].Parm.pkey
                                     ELSE objs[o].Parm.cert)
             /\ objs[o].nat.checked
        ELSE /\ objs[o].nat.cert = NULL
             /\ objs[o].nat.key = NULL
             /\ ~objs[o].nat.checked

\* A context with certificate and key in one file, cross-checked.
C4_Witness ==
  \E o \in Live :
    /\ Context(objs[o]) # 0
    /\ objs[o].Parm.cert # "" /\ objs[o].Parm.pkey = ""
    /\ objs[o].nat.checked

\* C5: when the constructor has returned with a null context, the native
\* context it allocated, if any, has been freed.
C5_NullOwnsNothing ==
  \A o \in Built :
    Context(objs[o]) = 0 => objs[o].nat.frees = objs[o].nat.allocs

\* A construction that allocated its native context, failed at the private
\* key and returned with a null context.
C5_Witness ==
  \E o \in Live :
    /\ Context(objs[o]) = 0 /\ objs[o].fail = "key"
    /\ objs[o].nat.allocs = 1 /\ objs[o].nat.frees = 1

\* C6: a native context is never freed more often than it was allocated, and
\* once the object is deleted it has been freed exactly as often.
C6_FreedOnce ==
  \A o \in ObjIds :
    /\ objs[o].nat.allocs <= 1
    /\ objs[o].nat.frees <= objs[o].nat.allocs
    /\ objs[o].st = "dead" => objs[o].nat.frees = objs[o].nat.allocs

\* A deleted object whose native context the scope guard had freed, and a
\* deleted object that had kept its native context.
C6_Witness ==
  \E o1, o2 \in ObjIds :
    /\ objs[o1].st = "dead" /\ objs[o1].returned /\ objs[o1].fail = "cipher"
    /\ objs[o1].nat.allocs = 1
    /\ objs[o2].st = "dead" /\ objs[o2].fail = "none" /\ objs[o2].nat.allocs = 1

\* The step in which Clone, called by thread t, returns.
CloneReturns(t) ==
  /\ th[t].kind = "clone"
  /\ th[t].pc \in {"body", "init_ret"}
  /\ th'[t].pc = "idle"

\* C7: when Clone is called on an object with a non-null context, the
\* environment and the file system are as they were when that object was
\* constructed and no library call of the replay fails, Clone returns an
\* object with a non-null context and the same Parm, field by field.
C7_CloneSameParams ==
  [][\A t \in Threads :
       CloneReturns(t) =>
         LET s == objs[th[t].src]
             n == objs'[th[t].obj]
         IN (Context(s) # 0 /\ ~s.stale /\ n.fail \notin LibFails) =>
              /\ n.st = "live" /\ Context(n) # 0
              /\ n.Parm.cert = s.Parm.cert
              /\ n.Parm.pkey = s.Parm.pkey
              /\ n.Parm.cadir = s.Parm.cadir
              /\ n.Parm.cafile = s.Parm.cafile
              /\ n.Parm.opts = s.Parm.opts]_vars

\* A clone of a client context whose certificate came from the environment,
\* with the environment and the file system unchanged.
C7_Witness ==
  \E o \in Live :
    /\ objs[o].from # 0
    /\ objs[objs[o].from].st = "live" /\ ~objs[objs[o].from].stale
    /\ ~objs[o].Parm.opts.servr
    /\ objs[o].Parm.cert # ""
    /\ objs[o].Parm = objs[objs[o].from].Parm

\* C8: Clone returns the new object exactly when its construction did not
\* fail; a returned object holds a context, a failed one is deleted and owns
\* no native context, and the object Clone was called on is unchanged.
C8_CloneResult ==
  [][\A t \in Threads :
       CloneReturns(t) =>
         LET n == objs'[th[t].obj]
         IN /\ n.returned <=> n.fail = "none"
            /\ n.returned => n.st = "live" /\ Context(n) # 0
            /\ ~n.returned => n.st = "dead" /\ n.nat.frees = n.nat.allocs
            /\ objs'[th[t].src] = objs[th[t].src]]_vars

\* Clone failed at the certificate and deleted the new object; the object it
\* was called on is there, with its context.
C8_Witness ==
  \E o \in ObjIds :
    /\ objs[o].from # 0 /\ objs[o].st = "dead" /\ ~objs[o].returned
    /\ objs[o].fail = "cert" /\ objs[o].nat.allocs = 1
    /\ objs[objs[o].from].st = "live" /\ Context(objs[objs[o].from]) # 0

\* C9 as claimed: an object whose construction ended with a null context has
\* all four path fields of Parm empty.
C9_Original ==
  \A o \in Live : Context(objs[o]) = 0 => PathsEmpty(objs[o].Parm)

\* C9, amended: Parm is written once the construction has passed the
\* initialisation gate, the defaulting and the path validation: when it ends
\* at one of these Parm is as default-constructed, when it ends later, also
\* with a null context, Parm holds the effective arguments; and no step
\* after the constructor's return changes the Parm of a constructed object.
C9_ParmWrittenOnce ==
  [][\A o \in ObjIds :
       /\ objs'[o].st = "live" =>
            IF objs'[o].fail \in EarlyFails
              THEN objs'[o].Parm = EmptyParm
              ELSE objs'[o].Parm = ParmOf(objs'[o].eff)
       /\ (objs[o].st = "live" /\ objs'[o].st = "live") =>
            objs'[o].Parm = objs[o].Parm]_vars

\* An object whose construction failed after the capture: null context,
\* Parm set; it has been cloned since and SetCiphers has been called.
C9_Witness ==
  \E o1, o2 \in ObjIds :
    /\ objs[o1].st = "live" /\ Context(objs[o1]) = 0
    /\ objs[o1].fail \in LibFails /\ objs[o1].Parm.cert # ""
    /\ objs[o2].from = o1 /\ objs[o2].st \in {"live", "dead"}
    /\ sslCiphers # DefaultCiphers

\* C10 as claimed: x509Verify() is true exactly for the objects that hold a
\* native context with verification mode "require peer certificate".
C10_Original ==
  \A o \in Live :
    x509Verify(objs[o]) <=>
      (Context(objs[o]) # 0 /\ objs[o].nat.vmode = "PEER")

\* C10, amended: for an object with a non-null context x509Verify() is true
\* exactly when the verification mode is "require peer certificate"; for an
\* object with a null context it is true exactly when the construction
\* passed the path validation with a CA directory or CA file.
C10_x509Verify ==
  \A o \in Live :
    IF Context(objs[o]) # 0
      THEN x509Verify(objs[o]) <=> objs[o].nat.vmode = "PEER"
      ELSE x509Verify(objs[o]) <=>
             /\ objs[o].fail \notin EarlyFails
             /\ objs[o].eff.caDir # NULL \/ objs[o].eff.caFile # NULL

\* A context that verifies peers with a CA file only, and an object without
\* context for which x509Verify() is true.
C10_Witness ==
  \E o1, o2 \in Live :
    /\ Context(objs[o1]) # 0 /\ x509Verify(objs[o1])
    /\ objs[o1].Parm.cadir = "" /\ objs[o1].nat.vmode = "PEER"
    /\ Context(objs[o2]) = 0 /\ x509Verify(objs[o2])

\* The roles of the path validator in the order it checks them, with the
\* argument that holds each role's path, the kind it must be, the most
\* permissive mode it may have and the words its rejection starts with.
Roles == <<"cadr", "cafl", "pkey", "cert">>

RoleDir(role) == role = "cadr"

RoleMask(role, a) ==
  CASE role = "cadr" -> {"ru", "wu", "xu", "rg", "xg", "ro", "xo"}
    [] role = "cafl" -> {"ru", "wu", "rg", "wg", "xg", "ro"}
    [] role = "pkey" -> {"ru", "wu"}
    [] OTHER         -> IF a.pkey = NULL THEN {"ru", "wu"}
                        ELSE {"ru", "wu", "rg", "wg", "xg", "ro"}

RoleWords(role, a) ==
  CASE role = "cadr" -> "Unable to use CA cert directory "
    [] role = "cafl" -> "Unable to use CA cert file "
    [] role = "pkey" -> "Unable to use key file "
    [] OTHER         -> IF a.pkey = NULL THEN "Unable to use cert+key file "
                        ELSE "Unable to use cert file "

\* The path of a role is present and fails one of the three tests on file
\* system f.
RoleFails(f, role, a) ==
  /\ a[role] # NULL
  /\ \/ a[role] \notin DOMAIN f
     \/ f[a[role]].isdir # RoleDir(role)
     \/ ~(f[a[role]].mode \subseteq RoleMask(role, a))

VPRun(f, a) == VerPaths(f, a.cert, a.pkey, a.cadr, a.cafl)

C12_OneTaggedDiagnostic ==
  \A o \in Built :
    IF objs[o].fail # "none"
      THEN /\ Cardinality(Diags(o)) = 1
           /\ \A i \in Diags(o) : sink[i].tag = "TLS_Context"
           /\ Context(objs[o]) = 0
      ELSE Diags(o) = {}

\* C13: every call of the verification callback returns the verdict it was
\* called with, and a call with a truthy verdict hands no record to the sink.
C13_VerdictPreserved ==
  [][(call'.n # call.n /\ call'.fn = "VerCB") =>
       /\ call'.res = call'.args.aOK
       /\ call'.args.aOK # 0 => sink' = sink]_vars

\* A call with a truthy verdict other than 1, after a call with a falsy
\* verdict that logged: the sink holds the records of the earlier call only.
C13_Witness ==
  /\ call.fn = "VerCB" /\ call.n = MaxCalls
  /\ call.args.aOK # 0 /\ call.args.aOK # 1 /\ call.res = call.args.aOK
  /\ Len(sink) # 0

\* The record the callback hands to the sink: tag, message, third argument.
CertRecord(msg, isErr) == [tag |-> "Cert", msg |-> msg, err |-> isErr, by |-> 0]

\* The three records of a rejection, in order.
CertRecords(x509P, isErr) ==
  <<CertRecord(<<"Cert verification failed for DN=", x509P.cert.subject>>, isErr),
    CertRecord(<<"Failing cert issuer=", x509P.cert.issuer>>, isErr),
    CertRecord(<<"Error ", x509P.err, " at depth ", x509P.depth, " [",
                 X509_verify_cert_error_string(x509P.err), "]">>, isErr)>>

\* C19 as claimed: a call with a falsy verdict hands exactly three records
\* to the sink, subject, issuer, error code and depth, each tagged "Cert"
\* and each with the third argument true.
C19_Original ==
  [][(call'.n # call.n /\ call'.fn = "VerCB" /\ call'.args.aOK = 0) =>
       sink' = sink \o CertRecords(call'.args.x509P, TRUE)]_vars

\* C19, amended: a call with a falsy verdict hands exactly three records to
\* the sink, subject, issuer, error code and depth, each tagged "Cert" and
\* each with the third argument false.
C19_ThreeCertRecords ==
  [][(call'.n # call.n /\ call'.fn = "VerCB" /\ call'.args.aOK = 0) =>
       sink' = sink \o CertRecords(call'.args.x509P, FALSE)]_vars

\* Two rejections in a row, of a certificate and of its self-signed issuer:
\* six records in the sink.
C19_Witness ==
  /\ call.fn = "VerCB" /\ call.n = MaxCalls /\ call.args.aOK = 0
  /\ Len(sink) = 6
  /\ sink[1].msg[2] = "/CN=host" /\ sink[4].msg[2] = "/CN=ca"
  /\ sink[6].msg[2] = call.args.x509P.err

\* The steps a construction fails at, or ends with, after the cipher list
\* was installed.
PastCiphers == {"none", "cert", "key", "match"}

\* C14: a step that changes the process-wide cipher list changes nothing
\* else, so the cipher list, the context and the Parm of every object are as
\* before; and a constructor that returns, called directly or by Clone,
\* having passed the cipher step has installed the list that is current.
C14_SetCiphersFrame ==
  [][/\ sslCiphers' # sslCiphers =>
          /\ sslCiphers' \in CipherArgs
          /\ UNCHANGED <<cfg, ctxMutex, initState, env, fs, th, objs, nObjs,
                         sink, call>>
     /\ \A o \in ObjIds :
          (objs[o].st = "building" /\ objs'[o].st = "live"
             /\ objs'[o].fail \in PastCiphers) =>
            objs'[o].nat.ciphers = sslCiphers]_vars

\* A context built with the default list, SetCiphers called, and a clone of
\* that context holding the new list while the first holds the default.
C14_Witness ==
  \E o1, o2 \in Live :
    /\ objs[o2].from = o1
    /\ Context(objs[o1]) # 0 /\ Context(objs[o2]) # 0
    /\ objs[o1].nat.ciphers = DefaultCiphers
    /\ objs[o2].nat.ciphers # DefaultCiphers
    /\ objs[o2].nat.ciphers = sslCiphers

\* The std::string a Parm field holds for a const char *.
Str(x) == IF x = NULL THEN "" ELSE x

\* C15: the Parm of a constructed object whose construction got as far as
\* the parameter capture holds the options as passed and, for a client, the
\* CA directory and CA file as passed, or both from X509_CERT_DIR and
\* X509_CERT_FILE when neither was passed, the certificate as passed or else
\* from X509_USER_PROXY, the key as passed or else from X509_USER_KEY; for a
\* server every field is as passed.  A client construction that is past the
\* initialisation gate, with no CA value passed and neither variable set,
\* ends at the defaulting: its message is the one about the CA
\* certificates, not one about a path, no native context was allocated and
\* Parm is untouched.
C15_ParmEffective ==
  \A o \in Live :
    LET a == objs[o].args
        P == objs[o].Parm
        noCA == a.caDir = NULL /\ a.caFile = NULL
    IN (objs[o].from = 0 /\ ~objs[o].stale /\ objs[o].fail # "init") =>
         /\ objs[o].fail \notin EarlyFails =>
              /\ P.opts = a.opts
              /\ IF a.opts.servr
                   THEN /\ P.cert = Str(a.cert) /\ P.pkey = Str(a.key)
                        /\ P.cadir = Str(a.caDir) /\ P.cafile = Str(a.caFile)
                   ELSE /\ P.cadir  = Str(IF noCA THEN env["X509_CERT_DIR"] ELSE a.caDir)
                        /\ P.cafile = Str(IF noCA THEN env["X509_CERT_FILE"] ELSE a.caFile)
                        /\ P.cert = Str(IF a.cert = NULL THEN env["X509_USER_PROXY"]
                                        ELSE a.cert)
                        /\ P.pkey = Str(IF a.key = NULL THEN env["X509_USER_KEY"]
                                        ELSE a.key)
         /\ (~a.opts.servr /\ noCA /\ env["X509_CERT_DIR"] = NULL
               /\ env["X509_CERT_FILE"] = NULL) =>
              /\ objs[o].fail = "config"
              /\ objs[o].nat.allocs = 0
              /\ P = EmptyParm
              /\ \A i \in Diags(o) : sink[i].msg[1] =
                   "Unable to determine the location of trusted CA certificates to verify peer identify; this is required!"

\* A client context built with a CA file passed and nothing else, while
\* X509_CERT_DIR and X509_USER_PROXY are set: the CA directory stays empty,
\* the certificate comes from the environment.
C15_Witness ==
  \E o \in Live :
    /\ Context(objs[o]) # 0 /\ ~objs[o].args.opts.servr
    /\ objs[o].args.caDir = NULL /\ objs[o].args.caFile # NULL
    /\ objs[o].args.cert = NULL
    /\ env["X509_CERT_DIR"] # NULL /\ env["X509_USER_PROXY"] # NULL
    /\ objs[o].Parm.cadir = "" /\ objs[o].Parm.cert = env["X509_USER_PROXY"]

StepOrder == <<"gate", "defaulting", "validation", "capture", "method",
               "allocation", "verify", "cipher", "certificate", "key",
               "crosscheck", "commit">>

StepOf(fail) ==
  CASE fail = "init"   -> "gate"
    [] fail = "config" -> "defaulting"
    [] fail = "paths"  -> "validation"
    [] fail = "meth"   -> "method"
    [] fail = "alloc"  -> "allocation"
    [] fail = "ca"     -> "verify"
    [] fail = "cipher" -> "cipher"
    [] fail = "cert"   -> "certificate"
    [] fail = "key"    -> "key"
    [] fail = "match"  -> "crosscheck"
    [] OTHER           -> "commit"

StepWords(fail) ==
  CASE fail = "init"   -> {"Installed OpenSSL lacks the required thread support!"}
    [] fail = "config" -> {"Unable to determine the location of trusted CA certificates to verify peer identify; this is required!"}
    [] fail = "paths"  -> {"Unable to use CA cert directory ", "Unable to use CA cert file ",
                           "Unable to use key file ", "Unable to use cert file ",
                           "Unable to use cert+key file "}
    [] fail = "meth"   -> {"No negotiable TLS method available."}
    [] fail = "alloc"  -> {"Unable to allocate TLS context!"}
    [] fail = "ca"     -> {"Unable to set the CA cert file or directory."}
    [] fail = "cipher" -> {"Unable to set SSL cipher list."}
    [] fail = "cert"   -> {"Unable to create TLS context; certificate error."}
    [] fail = "key"    -> {"Unable to create TLS context; private key error."}
    [] fail = "match"  -> {"Unable to create TLS context; cert-key mismatch."}
    [] OTHER           -> {}

\* The position of the commit in a construction: right after the cipher
\* policy when there is no certificate, else after the cross-check.
CommitAt(o) == IF objs[o].eff.cert = NULL THEN 9 ELSE Len(StepOrder)

\* C17: the steps a constructor executed are the steps of the fixed order,
\* from the gate on without a gap (the commit follows the cipher policy at
\* once when there is no certificate); every step but the last succeeded;
\* the last is the commit when the construction succeeded and otherwise the
\* step that failed, which is the one the record in the sink is about; and
\* an object for which a native context was allocated had passed the gate,
\* with the library initialised, and the path validation before.
C17_StepOrder ==
  \A o \in Live :
    LET t == objs[o].steps
        n == Len(t)
        f == objs[o].fail
    IN /\ n >= 1
       /\ \A i \in 1..n :
            IF t[i].step = "commit"
              THEN i = n /\ i = CommitAt(o)
              ELSE t[i].step = StepOrder[i]
       /\ \A i \in 1..(n - 1) : t[i].ok
       /\ t[n].step = StepOf(f)
       /\ t[n].ok <=> f = "none"
       /\ f # "none" =>
            /\ Diags(o) # {}
            /\ \A i \in Diags(o) : sink[i].msg[1] \in StepWords(f)
       /\ objs[o].nat.allocs > 0 =>
            /\ n >= 6
            /\ t[1] = [step |-> "gate", ok |-> TRUE]
            /\ t[3] = [step |-> "validation", ok |-> TRUE]
            /\ t[6] = [step |-> "allocation", ok |-> TRUE]
            /\ initDone /\ libInits = 1

\* A construction that loaded its certificate and failed at the private
\* key: ten steps, the last one failed, no cross-check, no commit.
C17_Witness ==
  \E o \in Live :
    /\ objs[o].fail = "key" /\ Len(objs[o].steps) = 10
    /\ objs[o].steps[10] = [step |-> "key", ok |-> FALSE]
    /\ objs[o].nat.cert # NULL /\ objs[o].nat.key = NULL
    /\ Context(objs[o]) = 0

\* The message of an Init() that finds no thread support.
NoThreadsMsg == "Installed OpenSSL lacks the required thread support!"

\* C18: in a build without OPENSSL_THREADS the library initialisation never
\* runs, initDone is never set and no callback is installed; no thread ever
\* enters InitTLS or gets past the gate; an Init() about to return returns
\* the message; and every constructor that has returned has left a null
\* context, allocated no native context and handed the sink one record,
\* which holds the message.
C18_NoThreadSupport ==
  ~cfg.threads =>
    /\ libInits = 0 /\ ~initDone
    /\ MutexVector = 0 /\ ~lockCB /\ ~idCB
    /\ \A t \in Threads :
         /\ th[t].pc \notin {"itls_lock", "itls_check", "itls_lib", "itls_cb", "body"}
         /\ th[t].pc = "init_ret" => th[t].emsg = NoThreadsMsg
    /\ \A o \in ObjIds : objs[o].nat.allocs = 0
    /\ \A o \in Built :
         /\ Context(objs[o]) = 0 /\ objs[o].fail = "init"
         /\ Cardinality(Diags(o)) = 1
         /\ \A i \in Diags(o) : sink[i].msg = <<NoThreadsMsg>>

\* Without thread support, every constructor call the process can make has
\* returned without a context, and a thread has had the message from Init().
C18_Witness ==
  /\ ~cfg.threads
  /\ \A o \in ObjIds : objs[o].st = "live" /\ Context(objs[o]) = 0
  /\ Len(sink) = MaxCtx
  /\ \E t \in Threads : th[t].pc = "idle" /\ th[t].emsg = NoThreadsMsg

\* The positions of a thread between its locking and its unlocking of
\* ctxMutex, in the gate and in InitTLS.
Holding == {"gate_load", "gate_end", "itls_check", "itls_lib", "itls_cb"}

====
